---------------------------- MODULE Spec2Model ----------------------------
(***************************************************************************)
(* Beam Spacing Calculator (src/src/App.jsx).                              *)
(*                                                                         *)
(* The component holds five inputs (C, D, B, angleMode, s), derives the    *)
(* spacing result with computeAll, formats lengths with inchesToFeetIn and *)
(* lays out a schematic diagram.                                           *)
(*                                                                         *)
(* JavaScript numbers are modelled as exact rationals n/d together with    *)
(* the non-finite values +Infinity, -Infinity and NaN.  A finite result    *)
(* whose magnitude exceeds MaxFinite overflows to an infinity, as a double *)
(* does beyond Number.MAX_VALUE; MaxFinite is that limit scaled down to a  *)
(* size TLC can enumerate.  Rounding of the mantissa and the sign of zero  *)
(* are not modelled: finite arithmetic is exact.                           *)
(***************************************************************************)
EXTENDS Integers, Sequences, FiniteSets, TLC

VARIABLES C, D, B, angleMode, s, lastEvent, fmtIn, fmtOut

vars == <<C, D, B, angleMode, s, lastEvent, fmtIn, fmtOut>>

(***************************************************************************)
(* Bounds of the model.                                                    *)
(***************************************************************************)
\* Largest finite magnitude (stands for Number.MAX_VALUE).
MaxFinite == 1200
\* Formatter inputs are the multiples of 1/FmtDen inch ...
FmtDen == 16
\* ... from -MaxFmt/FmtDen to MaxFmt/FmtDen inches.
MaxFmt == 640

(***************************************************************************)
(* Numbers.                                                                *)
(***************************************************************************)
Abs(i) == IF i < 0 THEN -i ELSE i

Sgn(i) == IF i < 0 THEN -1 ELSE IF i > 0 THEN 1 ELSE 0

RECURSIVE GCD(_, _)
GCD(a, b) == IF b = 0 THEN a ELSE GCD(b, a % b)

NaN == [k |-> "nan", n |-> 0, d |-> 1]

PosInf == [k |-> "inf", n |-> 1, d |-> 1]

NegInf == [k |-> "inf", n |-> -1, d |-> 1]

SignedInf(sg) == IF sg < 0 THEN NegInf ELSE PosInf

\* |n/d| > MaxFinite, computed without forming MaxFinite * d.
Exceeds(n, d) ==
    \/ Abs(n) \div d > MaxFinite
    \/ Abs(n) \div d = MaxFinite /\ Abs(n) % d > 0

\* The number n/d (d > 0) in lowest terms, or an infinity when out of range.
Rat(n, d) ==
    IF Exceeds(n, d) THEN SignedInf(n)
    ELSE LET g == GCD(Abs(n), d)
         IN  [k |-> "fin", n |-> n \div g, d |-> d \div g]

Int2Num(i) == Rat(i, 1)

Zero == Int2Num(0)

isFinite(x) == x.k = "fin"

isNaN(x) == x.k = "nan"

\* The sign of a number that is not NaN.
SignOf(x) == Sgn(x.n)

Neg(x) == [x EXCEPT !.n = -x.n]

\* x + y
Add(x, y) ==
    IF isNaN(x) \/ isNaN(y) THEN NaN
    ELSE IF ~isFinite(x) /\ ~isFinite(y) THEN (IF x.n = y.n THEN x ELSE NaN)
    ELSE IF ~isFinite(x) THEN x
    ELSE IF ~isFinite(y) THEN y
    ELSE LET g == GCD(x.d, y.d)
             l == (x.d \div g) * y.d
         IN  Rat(x.n * (l \div x.d) + y.n * (l \div y.d), l)

\* x - y
Sub(x, y) == Add(x, Neg(y))

\* x * y
Mul(x, y) ==
    IF isNaN(x) \/ isNaN(y) THEN NaN
    ELSE IF ~isFinite(x) \/ ~isFinite(y)
         THEN (IF SignOf(x) * SignOf(y) = 0 THEN NaN
               ELSE SignedInf(SignOf(x) * SignOf(y)))
    ELSE LET g1 == GCD(Abs(x.n), y.d)
             g2 == GCD(Abs(y.n), x.d)
         IN  Rat((x.n \div g1) * (y.n \div g2), (x.d \div g2) * (y.d \div g1))

\* x / y
Div(x, y) ==
    IF isNaN(x) \/ isNaN(y) THEN NaN
    ELSE IF ~isFinite(x) /\ ~isFinite(y) THEN NaN
    ELSE IF ~isFinite(x) THEN SignedInf(x.n * (IF SignOf(y) < 0 THEN -1 ELSE 1))
    ELSE IF ~isFinite(y) THEN Zero
    ELSE IF y.n = 0 THEN (IF x.n = 0 THEN NaN ELSE SignedInf(x.n))
    ELSE Mul(x, [k |-> "fin", n |-> Sgn(y.n) * y.d, d |-> Abs(y.n)])

\* x < y (false when either is NaN)
Lt(x, y) ==
    IF isNaN(x) \/ isNaN(y) THEN FALSE
    ELSE IF ~isFinite(x) /\ ~isFinite(y) THEN x.n < y.n
    ELSE IF ~isFinite(x) THEN x.n < 0
    ELSE IF ~isFinite(y) THEN y.n > 0
    ELSE SignOf(Sub(x, y)) < 0

\* x > y
Gt(x, y) == Lt(y, x)

\* x <= y
Le(x, y) == ~isNaN(x) /\ ~isNaN(y) /\ ~Lt(y, x)

\* x >= y
Ge(x, y) == Le(y, x)

\* x === y on numbers (NaN equals nothing)
NumEq(x, y) == ~isNaN(x) /\ ~isNaN(y) /\ x = y

\* Math.max(x, y)
MathMax(x, y) ==
    IF isNaN(x) \/ isNaN(y) THEN NaN ELSE IF Lt(x, y) THEN y ELSE x

\* Math.min(x, y)
MathMin(x, y) ==
    IF isNaN(x) \/ isNaN(y) THEN NaN ELSE IF Lt(y, x) THEN y ELSE x

\* Math.abs(x)
MathAbs(x) == IF isNaN(x) THEN NaN ELSE [x EXCEPT !.n = Abs(x.n)]

\* Math.floor(x)
MathFloor(x) == IF isFinite(x) THEN Int2Num(x.n \div x.d) ELSE x

\* Math.round(x): the integer nearest to x, ties towards +Infinity.
MathRound(x) == IF isFinite(x) THEN MathFloor(Add(x, Rat(1, 2))) ELSE x

(***************************************************************************)
(* Core math helpers.                                                      *)
(***************************************************************************)
\* Math.tan is tabulated at the angles the model's inputs produce, to three
\* decimals: TanDen is the table's denominator.
TanDen == 1000

\* An angle in radians is kept as a rational multiple of pi.
toRadians(deg) == Div(deg, Int2Num(180))

\* Math.tan at theta = q * pi, for q * 360 one of the tabulated half-degrees.
\* Math.tan is finite at every finite double.
MathTan(theta) ==
    LET hd == Mul(theta, Int2Num(360)).n
    IN  CASE hd = 0   -> Rat(0, TanDen)       \* tan 0
          [] hd = 1   -> Rat(9, TanDen)       \* tan 0.5 deg
          [] hd = 2   -> Rat(17, TanDen)      \* tan 1 deg
          [] hd = 15  -> Rat(132, TanDen)     \* tan 7.5 deg
          [] hd = 30  -> Rat(268, TanDen)     \* tan 15 deg
          [] hd = 60  -> Rat(577, TanDen)     \* tan 30 deg
          [] hd = 120 -> Rat(1732, TanDen)    \* tan 60 deg
          [] hd = 240 -> Rat(-1732, TanDen)   \* tan 120 deg

\* Variant of clamp without the upper bound: Math.max(v, min).
clampLowerOnly(v, min, max) == MathMax(v, min)

\* const clamp = (v, min, max) => Math.min(Math.max(v, min), max)
clamp(v, min, max) == MathMin(MathMax(v, min), max)

\* Variant of MountingHeight without the floor at 0: C - D.
MountingHeightNoFloor(c, d) == Sub(c, d)

\* const MH = Math.max(0, C - D)
MountingHeight(c, d) == MathMax(Zero, Sub(c, d))

\* Variant of HalfAngle that halves B in either mode.
HalfAngleAlwaysHalved(b, mode) == Div(b, Int2Num(2))

\* const thetaDeg = angleMode === 'full' ? B / 2 : B
HalfAngle(b, mode) == IF mode = "full" THEN Div(b, Int2Num(2)) ELSE b

\* const r = MH * Math.tan(theta)
Radius(mh, theta) == Mul(mh, MathTan(theta))

\* Variant of ChosenSpacing that divides by the factor: A_touch / s.
ChosenSpacingDivided(sf, at) == Div(at, sf)

\* const A = s * A_touch
ChosenSpacing(sf, at) == Mul(sf, at)

computeAll(c, d, b, mode, sf) ==
    LET MH == MountingHeight(c, d)
        thetaDeg == HalfAngle(b, mode)
        theta == toRadians(thetaDeg)
        r == Radius(MH, theta)
        A_touch == Mul(Int2Num(2), r)
        A == ChosenSpacing(sf, A_touch)
    IN  [MH |-> MH, thetaDeg |-> thetaDeg, r |-> r, A_touch |-> A_touch, A |-> A]

(***************************************************************************)
(* Derived values of the current render.                                   *)
(***************************************************************************)
res == computeAll(C, D, B, angleMode, s)

MH == res.MH

thetaDeg == res.thetaDeg

r == res.r

A_touch == res.A_touch

A == res.A

\* Variant of Overlap with the operands swapped: Math.max(0, A - A_touch).
OverlapSwapped(at, a) == MathMax(Zero, Sub(a, at))

\* const overlap = Math.max(0, A_touch - A)
Overlap(at, a) == MathMax(Zero, Sub(at, a))

\* const overlapPct = A_touch > 0 ? (overlap / A_touch) * 100 : 0
OverlapPct(at, ov) ==
    IF Gt(at, Zero) THEN Mul(Div(ov, at), Int2Num(100)) ELSE Zero

overlap == Overlap(A_touch, A)

overlapPct == OverlapPct(A_touch, overlap)

(***************************************************************************)
(* Text.  A rendered string is a sequence of tokens: a literal piece of    *)
(* text, or a decimal numeral standing for an integer.  The glyphs U+2032, *)
(* U+2033 and U+2013 of the source are written ', '' and <en-dash>.        *)
(***************************************************************************)
Lit(str) == [lit |-> str, v |-> 0]

Numeral(i) == [lit |-> "#", v |-> i]

\* Number(x).toFixed(digits): "NaN", "Infinity" and "-Infinity" for the
\* non-finite values, else sign, integer part, point and the fraction digits,
\* rounded half up on the magnitude.
toFixed(x, digits) ==
    IF isNaN(x) THEN <<Lit("NaN")>>
    ELSE IF ~isFinite(x)
         THEN <<Lit(IF x.n < 0 THEN "-Infinity" ELSE "Infinity")>>
    ELSE LET p == 10 ^ digits
             whole == Abs(x.n) \div x.d
             rest == Abs(x.n) % x.d
             fr == (2 * rest * p + x.d) \div (2 * x.d)
             body == IF fr = p
                     THEN <<Numeral(whole + 1), Lit("."), Numeral(0)>>
                     ELSE <<Numeral(whole), Lit("."), Numeral(fr)>>
         IN  IF x.n < 0 THEN <<Lit("-")>> \o body ELSE body

\* const feet = Math.floor(inches / 12), inches already the absolute value
Feet(inches) == MathFloor(Div(inches, Int2Num(12)))

\* Variant of RoundToEighth that truncates: Math.floor(remIn * 8) / 8.
RoundToEighthDown(remIn) == Div(MathFloor(Mul(remIn, Int2Num(8))), Int2Num(8))

\* const eighths = Math.round(remIn * 8) / 8
RoundToEighth(remIn) == Div(MathRound(Mul(remIn, Int2Num(8))), Int2Num(8))

\* The fraction text: "" when the numerator rounds to 0, else "<num>/8".
\* (.replace(/\b1\/8\b/, "1/8") rewrites a text into itself.)
FracStr(frac) ==
    LET den == 8
        num == MathRound(Mul(frac, Int2Num(den)))
    IN  IF num = Zero THEN <<>>
        ELSE <<Numeral(num.n), Lit("/"), Numeral(den)>>

inchesToFeetIn(inches) ==
    IF ~isFinite(inches) THEN <<Lit("<en-dash>")>>
    ELSE LET sign == IF Lt(inches, Zero) THEN -1 ELSE 1
             absIn == MathAbs(inches)
             feet == Feet(absIn)
             remIn == RoundToEighth(Sub(absIn, Mul(feet, Int2Num(12))))
             inchesWhole == MathFloor(remIn)
             frac == Sub(remIn, inchesWhole)
             fracStr == FracStr(frac)
             inStr == <<Numeral(inchesWhole.n)>>
                      \o (IF fracStr # <<>> THEN <<Lit(" ")>> \o fracStr ELSE <<>>)
             base == <<Numeral(feet.n), Lit("'-")>> \o inStr \o <<Lit("''")>>
         IN  IF sign < 0 THEN <<Lit("-")>> \o base ELSE base

\* The Results panel: the text of each value cell.
ResultsPanel ==
    [ mountingHeight |-> toFixed(MH, 1) \o <<Lit(" in (")>>
                         \o inchesToFeetIn(MH) \o <<Lit(")")>>,
      halfAngle      |-> toFixed(thetaDeg, 2) \o <<Lit("deg")>>,
      radius         |-> toFixed(r, 2) \o <<Lit(" in")>>,
      touchSpacing   |-> toFixed(A_touch, 2) \o <<Lit(" in (")>>
                         \o inchesToFeetIn(A_touch) \o <<Lit(")")>>,
      chosenSpacing  |-> toFixed(A, 2) \o <<Lit(" in ")>> \o <<Lit("(")>>
                         \o inchesToFeetIn(A) \o <<Lit(")")>>,
      overlap        |-> toFixed(overlap, 2) \o <<Lit(" in (")>>
                         \o toFixed(overlapPct, 1) \o <<Lit("%)")>> ]

(***************************************************************************)
(* Diagram layout.                                                         *)
(***************************************************************************)
svgWidth == 760

margin == [top |-> 24, right |-> 24, bottom |-> 24, left |-> 24]

\* const totalWidthIn = Math.max(1, A + 2 * r)
totalWidthIn == MathMax(Int2Num(1), Add(A, Mul(Int2Num(2), r)))

drawableWidth == Int2Num(svgWidth - margin.left - margin.right)

\* Variant of xScale without the 10% margin: drawableWidth / totalWidthIn.
xScaleNoBreathingRoom == Div(drawableWidth, totalWidthIn)

\* const xScale = drawableWidth / (totalWidthIn * 1.1)
xScale == Div(drawableWidth, Mul(totalWidthIn, Rat(11, 10)))

center == Add(Int2Num(margin.left), Div(drawableWidth, Int2Num(2)))

xLeft == Sub(center, Mul(Div(A, Int2Num(2)), xScale))

xRight == Add(center, Mul(Div(A, Int2Num(2)), xScale))

beamFootLeftL == Sub(xLeft, Mul(r, xScale))

beamFootLeftR == Add(xLeft, Mul(r, xScale))

beamFootRightL == Sub(xRight, Mul(r, xScale))

beamFootRightR == Add(xRight, Mul(r, xScale))

(***************************************************************************)
(* Inputs the model enumerates.  A number input yields a finite number     *)
(* (Number("") is 0); its min and max attributes do not stop typed values. *)
(***************************************************************************)
CValues == {Int2Num(i) : i \in {0, 36, 108, 900}}

DValues == {Int2Num(i) : i \in {-900, 0, 36, 96}}

BValues == {Int2Num(i) : i \in {0, 1, 15, 30, 60, 120}}

AngleModes == {"full", "half"}

\* Positions of the range slider (min 0.6, max 1.2, step 0.01).
SliderValues == {Rat(i, 100) : i \in {60, 75, 90, 100, 120}}

\* Values typed into the spacing-factor number box.
EnteredValues == {Rat(i, 100) : i \in {-100, 0, 59, 60, 75, 90, 100, 120, 121, 300}}

sMin == Rat(6, 10)

sMax == Rat(12, 10)

Event(op, arg) == [op |-> op, arg |-> arg]

(***************************************************************************)
(* The component.                                                          *)
(***************************************************************************)
Init ==
    /\ C = Int2Num(108)
    /\ D = Int2Num(36)
    /\ B = Int2Num(30)
    /\ angleMode = "full"
    /\ s = Rat(9, 10)
    /\ lastEvent = Event("mount", Zero)
    /\ fmtIn = Zero
    /\ fmtOut = <<>>

SetAll(c, d, b, mode, sf) ==
    /\ C' = Int2Num(c)
    /\ D' = Int2Num(d)
    /\ B' = Int2Num(b)
    /\ angleMode' = mode
    /\ s' = sf
    /\ UNCHANGED <<fmtIn, fmtOut>>

Reset ==
    /\ SetAll(108, 36, 30, "full", Rat(9, 10))
    /\ lastEvent' = Event("Reset", Zero)

PresetNoOverlap ==
    /\ SetAll(108, 36, 30, "full", Int2Num(1))
    /\ lastEvent' = Event("PresetNoOverlap", Zero)

PresetTenPercent ==
    /\ SetAll(108, 36, 30, "full", Rat(9, 10))
    /\ lastEvent' = Event("PresetTenPercent", Zero)

PresetHalfAngle ==
    /\ SetAll(108, 36, 15, "half", Int2Num(1))
    /\ lastEvent' = Event("PresetHalfAngle", Zero)

SetC(v) ==
    /\ C' = v
    /\ lastEvent' = Event("SetC", v)
    /\ UNCHANGED <<D, B, angleMode, s, fmtIn, fmtOut>>

SetD(v) ==
    /\ D' = v
    /\ lastEvent' = Event("SetD", v)
    /\ UNCHANGED <<C, B, angleMode, s, fmtIn, fmtOut>>

SetB(v) ==
    /\ B' = v
    /\ lastEvent' = Event("SetB", v)
    /\ UNCHANGED <<C, D, angleMode, s, fmtIn, fmtOut>>

SetAngleMode(m) ==
    /\ angleMode' = m
    /\ lastEvent' = Event("SetAngleMode", Zero)
    /\ UNCHANGED <<C, D, B, s, fmtIn, fmtOut>>

\* The range slider: setS(Number(e.target.value))
SlideS(v) ==
    /\ s' = v
    /\ lastEvent' = Event("SlideS", v)
    /\ UNCHANGED <<C, D, B, angleMode, fmtIn, fmtOut>>

\* The number box: setS(clamp(Number(e.target.value), 0.6, 1.2))
EnterS(v) ==
    /\ s' = clamp(v, sMin, sMax)
    /\ lastEvent' = Event("EnterS", v)
    /\ UNCHANGED <<C, D, B, angleMode, fmtIn, fmtOut>>

Next ==
    \/ Reset
    \/ PresetNoOverlap
    \/ PresetTenPercent
    \/ PresetHalfAngle
    \/ \E v \in CValues : SetC(v)
    \/ \E v \in DValues : SetD(v)
    \/ \E v \in BValues : SetB(v)
    \/ \E m \in AngleModes : SetAngleMode(m)
    \/ \E v \in SliderValues : SlideS(v)
    \/ \E v \in EnteredValues : EnterS(v)

Spec == Init /\ [][Next]_vars

(***************************************************************************)
(* inchesToFeetIn as a pure function: the input is drawn from FmtInputs    *)
(* and Format applies the formatter to it.                                 *)
(***************************************************************************)
FmtInputs == {Rat(i, FmtDen) : i \in -MaxFmt .. MaxFmt} \cup {PosInf, NegInf, NaN}

InitFmt ==
    /\ C = Int2Num(108)
    /\ D = Int2Num(36)
    /\ B = Int2Num(30)
    /\ angleMode = "full"
    /\ s = Rat(9, 10)
    /\ lastEvent = Event("mount", Zero)
    /\ fmtIn \in FmtInputs
    /\ fmtOut = <<>>

Format ==
    /\ fmtOut = <<>>
    /\ fmtOut' = inchesToFeetIn(fmtIn)
    /\ lastEvent' = Event("Format", fmtIn)
    /\ UNCHANGED <<C, D, B, angleMode, s, fmtIn>>

NextFmt == Format

SpecFmt == InitFmt /\ [][NextFmt]_vars

(***************************************************************************)
(* Reading a formatted length back.                                        *)
(***************************************************************************)
Placeholder == <<Lit("<en-dash>")>>

TxtNeg(txt) == txt[1] = Lit("-")

TxtBody(txt) == IF TxtNeg(txt) THEN Tail(txt) ELSE txt

TxtFeet(txt) == TxtBody(txt)[1].v

TxtWhole(txt) == TxtBody(txt)[3].v

TxtHasFrac(txt) == Len(TxtBody(txt)) = 8

TxtNum(txt) == IF TxtHasFrac(txt) THEN TxtBody(txt)[5].v ELSE 0

TxtDen(txt) == IF TxtHasFrac(txt) THEN TxtBody(txt)[7].v ELSE 8

\* sign * (feet * 12 + whole inches + numerator / denominator)
Denoted(txt) ==
    Mul(Int2Num(IF TxtNeg(txt) THEN -1 ELSE 1),
        Add(Add(Mul(Int2Num(TxtFeet(txt)), Int2Num(12)), Int2Num(TxtWhole(txt))),
            Div(Int2Num(TxtNum(txt)), Int2Num(TxtDen(txt)))))

\* |x| rounded to the nearest 1/8 (ties up), with the sign of x.
NearestEighth(x) == Rat(Sgn(x.n) * ((16 * Abs(x.n) + x.d) \div (2 * x.d)), 8)

Formatted == fmtOut # <<>> /\ isFinite(fmtIn)

(***************************************************************************)
(* C1.  For every finite input, the eighths numerator inchesToFeetIn       *)
(* renders is in 1..7 and the whole-inch part it renders is in 0..11 (a    *)
(* remainder that rounds up to 12 inches carries into the feet).           *)
(* The code does not carry: this is the claim as stated, and it fails.     *)
(***************************************************************************)
C1_CarryIntoFeet ==
    Formatted =>
        /\ TxtWhole(fmtOut) \in 0 .. 11
        /\ TxtHasFrac(fmtOut) => TxtNum(fmtOut) \in 1 .. 7

(***************************************************************************)
(* C2.  Round trip: the number the text of inchesToFeetIn(x) denotes is    *)
(* |x| rounded to the nearest 1/8 inch with the sign of x, and the text    *)
(* has a leading '-' exactly when x < 0.                                   *)
(***************************************************************************)
C2_RoundTrip ==
    Formatted =>
        /\ TxtNeg(fmtOut) <=> Lt(fmtIn, Zero)
        /\ TxtDen(fmtOut) = 8
        /\ Denoted(fmtOut) = NearestEighth(fmtIn)

\* A length over a foot that is not a multiple of 1/8 has been formatted.
C2_Witness ==
    /\ Formatted
    /\ Lt(Int2Num(12), fmtIn)
    /\ TxtHasFrac(fmtOut)
    /\ Denoted(fmtOut) # fmtIn
    /\ Denoted(fmtOut) = NearestEighth(fmtIn)

ValidK == {k \in BValues : Gt(k, Zero) /\ Mul(Int2Num(2), k) \in BValues}

C4_HalfFullEquivalence ==
    \A k \in ValidK :
        LET full == computeAll(C, D, Mul(Int2Num(2), k), "full", Int2Num(1))
            half == computeAll(C, D, k, "half", Int2Num(1))
        IN  /\ NumEq(full.thetaDeg, half.thetaDeg)
            /\ NumEq(full.A_touch, half.A_touch)

\* The half-angle preset shows the touch spacing of the 30-degree full angle.
C4_Witness ==
    /\ angleMode = "half"
    /\ B = Int2Num(15)
    /\ B \in ValidK
    /\ Gt(A_touch, Zero)
    /\ A_touch = computeAll(C, D, Int2Num(30), "full", Int2Num(1)).A_touch

(***************************************************************************)
(* C5.  Monotonicity in the spacing factor.                                *)
(***************************************************************************)
\* Spacing factors computeAll is compared at (all > 0).
SFactors == {Rat(i, 100) : i \in {1, 60, 90, 100, 120, 200, 300}}

ChosenAt(sf) == computeAll(C, D, B, angleMode, sf).A

\* C5 as stated: with C, D, the mode and B fixed, chosenSpacing is strictly
\* increasing in s for s > 0.
C5_StrictlyIncreasing ==
    \A s1 \in SFactors : \A s2 \in SFactors :
        Lt(s1, s2) => Lt(ChosenAt(s1), ChosenAt(s2))

\* C5 amended: chosenSpacing is strictly increasing in s for s > 0 whenever
\* touchSpacing > 0 and the smaller of the two chosen spacings is finite.
C5_IncreasingWhenPositive ==
    \A s1 \in SFactors : \A s2 \in SFactors :
        (Lt(s1, s2) /\ Gt(A_touch, Zero) /\ isFinite(ChosenAt(s1)))
            => Lt(ChosenAt(s1), ChosenAt(s2))

\* The slider stands at its minimum over a positive touch spacing.
C5_Witness ==
    /\ Gt(A_touch, Zero)
    /\ s = sMin
    /\ isFinite(A)
    /\ A = ChosenAt(sMin)
    /\ Lt(A, ChosenAt(sMax))

(***************************************************************************)
(* C6.  Field ranges: for C >= 0, D >= 0, B in (0, 170], either mode and   *)
(* s in [0.60, 1.20], halfAngleDegrees is in (0, 170] and mountingHeight,  *)
(* radius, touchSpacing, chosenSpacing and overlap are non-negative.       *)
(* This is the claim as stated; the code breaks it.                        *)
(***************************************************************************)
C6_FieldRanges ==
    ( /\ Ge(C, Zero) /\ Ge(D, Zero)
      /\ Gt(B, Zero) /\ Le(B, Int2Num(170))
      /\ Ge(s, Rat(60, 100)) /\ Le(s, Rat(120, 100)) )
    => /\ Gt(thetaDeg, Zero) /\ Le(thetaDeg, Int2Num(170))
       /\ Ge(MH, Zero)
       /\ Ge(r, Zero)
       /\ Ge(A_touch, Zero)
       /\ Ge(A, Zero)
       /\ Ge(overlap, Zero)

(***************************************************************************)
(* C7.  overlapPercent.                                                    *)
(***************************************************************************)
OverlapPctAsClaimed ==
    /\ IF Gt(A_touch, Zero) /\ Lt(s, Int2Num(1))
       THEN NumEq(overlapPct, Mul(Sub(Int2Num(1), s), Int2Num(100)))
       ELSE NumEq(overlapPct, Zero)
    /\ Ge(overlapPct, Zero)
    /\ Le(overlapPct, Int2Num(100))

\* C7 as stated: in every state with s in [0.60, 1.20], overlapPercent is
\* (1 - s) * 100 when touchSpacing > 0 and s < 1, and 0 otherwise; hence it
\* lies in [0, 100].
C7_OverlapPercent ==
    (Ge(s, Rat(60, 100)) /\ Le(s, Rat(120, 100))) => OverlapPctAsClaimed

\* C7 amended: the same, in every state whose touchSpacing is not +Infinity.
C7_OverlapPercentFinite ==
    (Ge(s, Rat(60, 100)) /\ Le(s, Rat(120, 100)) /\ A_touch # PosInf)
        => OverlapPctAsClaimed

\* The 10% preset shows ten percent overlap over a positive touch spacing.
C7_Witness ==
    /\ lastEvent.op = "PresetTenPercent"
    /\ s = Rat(9, 10)
    /\ Gt(A_touch, Zero)
    /\ isFinite(A_touch)
    /\ Gt(overlap, Zero)
    /\ overlapPct = Int2Num(10)

(***************************************************************************)
(* C8.  Whenever mountingHeight, radius, touchSpacing or chosenSpacing is  *)
(* non-finite, its cell of the Results panel shows the placeholder of the  *)
(* unit format and no NaN or Infinity text.                                *)
(* This is the claim as stated; the code breaks it.                        *)
(***************************************************************************)
NonFiniteText == {Lit("NaN"), Lit("Infinity"), Lit("-Infinity")}

Tokens(txt) == {txt[i] : i \in 1 .. Len(txt)}

CellShowsPlaceholderOnly(x, cell) ==
    ~isFinite(x) =>
        /\ Placeholder[1] \in Tokens(cell)
        /\ Tokens(cell) \cap NonFiniteText = {}

C8_NonFinitePlaceholder ==
    /\ CellShowsPlaceholderOnly(MH, ResultsPanel.mountingHeight)
    /\ CellShowsPlaceholderOnly(r, ResultsPanel.radius)
    /\ CellShowsPlaceholderOnly(A_touch, ResultsPanel.touchSpacing)
    /\ CellShowsPlaceholderOnly(A, ResultsPanel.chosenSpacing)

(***************************************************************************)
(* C9.  After any sequence of UI operations the stored spacing factor is   *)
(* within [0.60, 1.20]; a manual entry outside that range is stored as the *)
(* nearest bound.                                                          *)
(***************************************************************************)
NearestInRange(v) ==
    IF Lt(v, Rat(60, 100)) THEN Rat(60, 100)
    ELSE IF Gt(v, Rat(120, 100)) THEN Rat(120, 100)
    ELSE v

C9_SpacingFactorInRange ==
    /\ Ge(s, Rat(60, 100))
    /\ Le(s, Rat(120, 100))
    /\ lastEvent.op = "EnterS" => s = NearestInRange(lastEvent.arg)

\* A value above the range has just been typed and the upper bound stored.
C9_Witness ==
    /\ lastEvent.op = "EnterS"
    /\ Gt(lastEvent.arg, Rat(120, 100))
    /\ s = Rat(120, 100)

(***************************************************************************)
(* C10.  Diagram auto-fit.                                                 *)
(***************************************************************************)
BeamFeet == {beamFootLeftL, beamFootLeftR, beamFootRightL, beamFootRightR}

drawnExtent == Mul(Add(A, Mul(Int2Num(2), r)), xScale)

LayoutFits ==
    /\ isFinite(xScale) /\ Gt(xScale, Zero)
    /\ NumEq(Sub(center, xLeft), Sub(xRight, center))
    /\ NumEq(Sub(xRight, xLeft), Mul(A, xScale))
    /\ \A foot \in BeamFeet :
          /\ Ge(foot, Int2Num(margin.left))
          /\ Le(foot, Int2Num(svgWidth - margin.right))
    /\ Le(drawnExtent, Div(drawableWidth, Rat(11, 10)))

FiniteNonNegativeResult ==
    /\ isFinite(r) /\ Ge(r, Zero)
    /\ isFinite(A) /\ Ge(A, Zero)

\* C10 as stated: for every result with finite radius >= 0 and chosenSpacing
\* >= 0 the scale is finite and positive, the fixtures are symmetric about
\* the centre and chosenSpacing * pixelsPerInch apart, the four beam feet lie
\* in [margin.left, svgWidth - margin.right] and the drawn extent is at most
\* drawableWidth / 1.1.
C10_DiagramFits == FiniteNonNegativeResult => LayoutFits

\* C10 amended: the same, for every such result whose total width times 1.1,
\* max(1, chosenSpacing + 2 * radius) * 1.1, is finite.
C10_DiagramFitsNoOverflow ==
    (FiniteNonNegativeResult /\ isFinite(Mul(totalWidthIn, Rat(11, 10))))
        => LayoutFits

\* After a slider move, two overlapping beams wider than an inch are drawn
\* inside the margins.
C10_Witness ==
    /\ lastEvent.op = "SlideS"
    /\ FiniteNonNegativeResult
    /\ Gt(totalWidthIn, Int2Num(1))
    /\ Gt(overlap, Zero)
    /\ Lt(xLeft, xRight)
    /\ Gt(beamFootLeftL, Int2Num(margin.left))
    /\ Lt(beamFootRightR, Int2Num(svgWidth - margin.right))
    /\ LayoutFits

=============================================================================
